---- MODULE Spec2Model ----
(***************************************************************************)
(* A model of gmailfilters' bulk-filter command                            *)
(* (gmailfilters/cmd/bulkfilter.py): argument parsing with labelspec and   *)
(* flagspec, take_action's start-up, the per-folder loop and the calls     *)
(* process_messages issues on the IMAP connection for every chunk.         *)
(*                                                                         *)
(* Python strings are sequences of one-character strings, so that          *)
(* startswith, slicing and upper() are computed and not assumed.           *)
(***************************************************************************)
EXTENDS Naturals, Sequences, FiniteSets, TLC

VARIABLES
    argv,              \* the command line: raw tokens, before argparse
    args,              \* the argparse namespace (self.args)
    pc,                \* position of the single thread of control
    result,            \* "running", "ok", or the exception that ended the run
    selected_folders,  \* take_action's selected_folders
    fidx,              \* index of the folder process_folders is at
    messages,          \* process_one_folder's messages (the search result)
    pos,               \* chunker's position in messages (1-based)
    chunk,             \* the chunk process_messages is working on
    handed,            \* history: chunks handed to process_messages for this folder
    calls,             \* history: the calls made on the IMAP client, in order, since
                       \* process_one_folder was last entered (before that: since the start)
    outcomes           \* history: how process_one_folder returned for each folder so far

vars == <<argv, args, pc, result, selected_folders, fidx, messages, pos,
          chunk, handed, calls, outcomes>>

----------------------------------------------------------------------------
(* Bounds of the model.                                                    *)

MaxMsgs == 3        \* message identifiers are 1..MaxMsgs; a search returns at most MaxMsgs
MaxChunk == 2       \* --chunksize ranges over 1..MaxChunk
MaxSigns == 2       \* leading sign characters tried in front of a flag token
MaxLabelLen == 3    \* longest raw label token tried

----------------------------------------------------------------------------
(* Strings.                                                                *)

LowerChars == <<"a","c","d","e","f","g","l","n","r","s","t","w","x">>
UpperChars == <<"A","C","D","E","F","G","L","N","R","S","T","W","X">>

\* str.upper() on one character
UpperChar(c) ==
    IF \E i \in 1..Len(LowerChars) : LowerChars[i] = c
    THEN UpperChars[CHOOSE i \in 1..Len(LowerChars) : LowerChars[i] = c]
    ELSE c

\* str.upper()
Upper(s) == [i \in 1..Len(s) |-> UpperChar(s[i])]

\* str.startswith(c) for a one-character prefix
StartsWith(s, c) == Len(s) >= 1 /\ s[1] = c

\* s[1:]
Slice1(s) == SubSeq(s, 2, Len(s))

valid_flags == <<
    <<"S","E","E","N">>,
    <<"A","N","S","W","E","R","E","D">>,
    <<"F","L","A","G","G","E","D">>,
    <<"D","E","L","E","T","E","D">>,
    <<"D","R","A","F","T">>,
    <<"R","E","C","E","N","T">> >>

\* imapclient's module constants SEEN, ANSWERED, ... (getattr(imapclient, flag))
imapclient_flags == <<"\\Seen", "\\Answered", "\\Flagged", "\\Deleted", "\\Draft", "\\Recent">>

InValidFlags(flag) == \E i \in 1..Len(valid_flags) : valid_flags[i] = flag

GetAttrImapclient(flag) ==
    imapclient_flags[CHOOSE i \in 1..Len(valid_flags) : valid_flags[i] = flag]

----------------------------------------------------------------------------
(* labelspec and flagspec.                                                 *)

\* mutant: the '+' branch keeps the whole token
labelspec_KeepsPlus(spec) ==
    IF StartsWith(spec, "-") THEN <<"-", Slice1(spec)>>
    ELSE <<"+", spec>>

labelspec(spec) ==
    IF StartsWith(spec, "-") THEN <<"-", Slice1(spec)>>
    ELSE IF StartsWith(spec, "+") THEN <<"+", Slice1(spec)>>
    ELSE <<"+", spec>>

\* mutant: spec.upper() is missing
flagspec_raises_CaseSensitive(spec) == ~InValidFlags(labelspec(spec)[2])

\* flagspec either raises ValueError or returns (action, imapclient constant)
flagspec_raises(spec) == ~InValidFlags(labelspec(Upper(spec))[2])

flagspec(spec) ==
    LET parsed == labelspec(Upper(spec))
    IN  <<parsed[1], GetAttrImapclient(parsed[2])>>

----------------------------------------------------------------------------
(* The command line and the server.                                        *)

None == "<None>"

\* str.lower(), used only to build the tokens tried
LowerChar(c) ==
    IF \E i \in 1..Len(UpperChars) : UpperChars[i] = c
    THEN LowerChars[CHOOSE i \in 1..Len(UpperChars) : UpperChars[i] = c]
    ELSE c
Lower(s) == [i \in 1..Len(s) |-> LowerChar(s[i])]

\* every string over the characters cs of length at most n
StringsUpTo(cs, n) == UNION { [1..k -> cs] : k \in 0..n }

\* -F tokens tried one at a time: up to MaxSigns sign characters in front of a
\* flag name in upper, lower or mixed case, of a flag name cut short or
\* extended, or of nothing
FlagBodies ==
    {<<>>} \cup UNION { { valid_flags[i],
                          Lower(valid_flags[i]),
                          <<valid_flags[i][1]>> \o Slice1(Lower(valid_flags[i])),
                          SubSeq(valid_flags[i], 1, Len(valid_flags[i]) - 1),
                          valid_flags[i] \o <<"X">> } : i \in 1..Len(valid_flags) }
FlagTokens == { p \o b : p \in StringsUpTo({"+", "-"}, MaxSigns), b \in FlagBodies }

\* -L tokens tried one at a time
LabelTokens == StringsUpTo({"+", "-", "a"}, MaxLabelLen)

\* -F and -L lists tried together with the other options
FlagArgvs == {
    <<>>,
    << <<"+","S","E","E","N">> >>,
    << <<"-","s","e","e","n">>, <<"F","l","a","g","g","e","d">> >>,
    << <<"+","D","R","A","F","T">>, <<"s","e","e","x">> >> }
LabelArgvs == {
    <<>>,
    << <<"+","a">>, <<"-","x">> >> }

\* what the server's folder listing returns
ServerFolders == <<"INBOX", "Spam">>

\* positional folder arguments tried
FolderArgvs == {
    <<"@all">>,
    <<"Spam">>,
    <<"Spam", "INBOX", "Spam">>,
    <<"nosuch">> }

\* accounts of the configuration file, and --account values tried
ConfigAccounts == {"work"}
AccountArgvs == {"work", "typo"}

\* The command lines tried are four families. Each varies some options over
\* all their combinations and fixes the others.
\* every combination of actions, on one folder:
DispatchArgvs ==
    [flag : {<<>>, << <<"-","s","e","e","n">>, <<"F","l","a","g","g","e","d">> >>},
     label : LabelArgvs,
     delete : BOOLEAN, trash : BOOLEAN, show : BOOLEAN, archive : BOOLEAN,
     fail_if_empty : {FALSE}, query : {None},
     folders : {<<"Spam">>}, chunksize : 1..MaxChunk, account : {"work"}]
\* every combination of account, folders, query and --fail-if-empty:
StartupArgvs ==
    [flag : FlagArgvs, label : {<<>>},
     delete : BOOLEAN, trash : {FALSE}, show : {FALSE}, archive : {FALSE},
     fail_if_empty : BOOLEAN, query : {None, "is:unread"},
     folders : FolderArgvs, chunksize : 1..MaxChunk, account : AccountArgvs]
\* every -F token:
FlagTokenArgvs ==
    [flag : {<<t>> : t \in FlagTokens}, label : {<<>>},
     delete : {FALSE}, trash : {FALSE}, show : {FALSE}, archive : {FALSE},
     fail_if_empty : {FALSE}, query : {None},
     folders : {<<"Spam">>}, chunksize : {MaxChunk}, account : {"work"}]
\* every -L token:
LabelTokenArgvs ==
    [flag : {<<>>}, label : {<<t>> : t \in LabelTokens},
     delete : {FALSE}, trash : {FALSE}, show : {FALSE}, archive : {FALSE},
     fail_if_empty : {FALSE}, query : {None},
     folders : {<<"Spam">>}, chunksize : {MaxChunk}, account : {"work"}]

Argvs == DispatchArgvs \cup StartupArgvs \cup FlagTokenArgvs \cup LabelTokenArgvs

\* sequences of distinct message identifiers: what a search can return
SearchResults ==
    UNION { {s \in [1..n -> 1..MaxMsgs] : \A i, j \in 1..n : i # j => s[i] # s[j]}
            : n \in 0..MaxMsgs }

----------------------------------------------------------------------------
(* Helpers of gmailfilters that bulkfilter.py calls.                       *)

Min(a, b) == IF a < b THEN a ELSE b

\* chunker(seq, size): the chunk that starts at position p
ChunkAt(seq, p, size) == SubSeq(seq, p, Min(p + size - 1, Len(seq)))

RECURSIVE Dedup(_)
Dedup(s) ==
    IF s = <<>> THEN <<>>
    ELSE LET front == Dedup(SubSeq(s, 1, Len(s) - 1))
             last == s[Len(s)]
         IN  IF \E i \in 1..Len(front) : front[i] = last THEN front
             ELSE Append(front, last)

RECURSIVE Expand(_, _)
Expand(tokens, listing) ==
    IF tokens = <<>> THEN <<>>
    ELSE LET t == Head(tokens)
             here == IF t = "@all" THEN listing
                     ELSE IF \E i \in 1..Len(listing) : listing[i] = t THEN <<t>>
                     ELSE <<>>
         IN  here \o Expand(Tail(tokens), listing)

\* BaseClientCommand.select_folders: the real folders the tokens name,
\* each once, in order
select_folders(tokens, listing) == Dedup(Expand(tokens, listing))

----------------------------------------------------------------------------
(* process_messages: which calls a chunk gets, and in which order.         *)

\* mutant: the show block moved above the archive block
Steps_ShowFirst == <<"add_flags", "remove_flags", "add_gmail_labels", "remove_gmail_labels",
                     "show", "archive", "trash", "delete_messages", "expunge">>

Steps == <<"add_flags", "remove_flags", "add_gmail_labels", "remove_gmail_labels",
           "archive", "show", "trash", "delete_messages", "expunge">>

\* the if-statements of process_messages
Requested(a, step) ==
    CASE step \in {"add_flags", "remove_flags"} -> a.flag # <<>>
      [] step \in {"add_gmail_labels", "remove_gmail_labels"} -> a.label # <<>>
      [] step = "archive" -> a.archive
      [] step = "show" -> a.show
      [] step = "trash" -> a.trash
      [] step \in {"delete_messages", "expunge"} -> a.delete

StepIndex(step) == CHOOSE i \in 1..Len(Steps) : Steps[i] = step

\* the first requested step after position i of Steps, "return" when none is left
StepAfter(a, i) ==
    LET later == {j \in (i + 1)..Len(Steps) : Requested(a, Steps[j])}
    IN  IF later = {} THEN "return"
        ELSE Steps[CHOOSE j \in later : \A k \in later : j <= k]

Values(specs) == [i \in 1..Len(specs) |-> specs[i][2]]

\* the four list comprehensions at the top of process_messages
add_flags(a) == Values(SelectSeq(a.flag, LAMBDA f : f[1] = "+"))
\* mutant: the filter on the sign is missing
del_flags_All(a) == Values(a.flag)

del_flags(a) == Values(SelectSeq(a.flag, LAMBDA f : f[1] = "-"))
add_labels(a) == Values(SelectSeq(a.label, LAMBDA l : l[1] = "+"))
del_labels(a) == Values(SelectSeq(a.label, LAMBDA l : l[1] = "-"))

Inbox == <<"\\","I","n","b","o","x">>
Trash == <<"\\","T","r","a","s","h">>

\* one call on the IMAP client, as the history records it: the client method,
\* the number of the chunk of this folder it is made for (0 outside
\* process_messages), the message identifiers passed (for a search: returned),
\* the other argument, and the outcome
Call(op, batch, ids, arg, out) ==
    [op |-> op, batch |-> batch, ids |-> ids, arg |-> arg, out |-> out]

\* the call each step of process_messages makes for chunk number b, c
StepCall(a, step, b, c, out) ==
    CASE step = "add_flags" -> Call("add_flags", b, c, add_flags(a), out)
      [] step = "remove_flags" -> Call("remove_flags", b, c, del_flags(a), out)
      [] step = "add_gmail_labels" -> Call("add_gmail_labels", b, c, add_labels(a), out)
      [] step = "remove_gmail_labels" ->
            Call("remove_gmail_labels", b, c, del_labels(a), out)
      [] step = "archive" -> Call("remove_gmail_labels", b, c, <<Inbox>>, out)
      [] step = "show" -> Call("fetch", b, c, <<"ENVELOPE", "X-GM-LABELS">>, out)
      [] step = "trash" -> Call("add_gmail_labels", b, c, <<Trash>>, out)
      [] step = "delete_messages" -> Call("delete_messages", b, c, <<>>, out)
      [] step = "expunge" -> Call("expunge", b, <<>>, <<>>, out)

----------------------------------------------------------------------------
(* The run.                                                                *)

Unparsed == [parsed |-> FALSE]

InitRun ==
    /\ args = Unparsed
    /\ pc = "argparse"
    /\ result = "running"
    /\ selected_folders = <<>>
    /\ fidx = 0
    /\ messages = <<>>
    /\ pos = 1
    /\ chunk = <<>>
    /\ handed = <<>>
    /\ calls = <<>>
    /\ outcomes = <<>>

Init ==
    /\ argv \in Argvs
    /\ InitRun

\* an exception leaves every frame: the command ends with it
Raise(exc) ==
    /\ pc' = "exit"
    /\ result' = exc

\* process_folders: process_one_folder for folder number i, or the end of the run
GoFolder(i, folders) ==
    /\ fidx' = i
    /\ IF i > Len(folders)
       THEN pc' = "exit" /\ result' = "ok"
       ELSE pc' = "select_folder" /\ result' = result

\* argparse applies type=flagspec to every -F token and type=labelspec to every
\* -L token; a ValueError from a type function is a usage error (exit status 2)
ParseArgs ==
    /\ pc = "argparse"
    /\ IF \E i \in 1..Len(argv.flag) : flagspec_raises(argv.flag[i])
       THEN Raise("usage_error") /\ args' = args
       ELSE /\ args' = [argv EXCEPT
                          !.flag = [i \in 1..Len(argv.flag) |-> flagspec(argv.flag[i])],
                          !.label = [i \in 1..Len(argv.label) |-> labelspec(argv.label[i])]]
            /\ pc' = "connect"
            /\ result' = result
    /\ UNCHANGED <<argv, selected_folders, fidx, messages, pos, chunk, handed, calls, outcomes>>

\* take_action: the account lookup and the IMAPClient constructor, which connects
Connect ==
    /\ pc = "connect"
    /\ IF args.account \notin ConfigAccounts
       THEN Raise("NoSuchAccount") /\ calls' = calls
       ELSE \E out \in {"ok", "error"} :
              /\ calls' = Append(calls, Call("IMAPClient", 0, <<>>, <<>>, out))
              /\ IF out = "ok" THEN pc' = "login" /\ result' = result
                 ELSE Raise("error")
    /\ UNCHANGED <<argv, args, selected_folders, fidx, messages, pos, chunk, handed, outcomes>>

Login ==
    /\ pc = "login"
    /\ \E out \in {"ok", "error"} :
         /\ calls' = Append(calls, Call("login", 0, <<>>, <<>>, out))
         /\ IF out = "ok" THEN pc' = "select_folders" /\ result' = result
            ELSE Raise("error")
    /\ UNCHANGED <<argv, args, selected_folders, fidx, messages, pos, chunk, handed, outcomes>>

\* mutant: the --fail-if-empty check on the number of folders is missing
ResolveFolders_NoCheck ==
    /\ pc = "select_folders"
    /\ \E out \in {"ok", "error"} :
         /\ calls' = Append(calls, Call("list_folders", 0, <<>>, <<>>, out))
         /\ IF out # "ok"
            THEN Raise("error") /\ UNCHANGED <<selected_folders, fidx>>
            ELSE /\ selected_folders' = select_folders(args.folders, ServerFolders)
                 /\ IF selected_folders' = <<>>
                    THEN Raise("NoMatchingFolders") /\ fidx' = fidx
                    ELSE GoFolder(1, selected_folders')
    /\ UNCHANGED <<argv, args, messages, pos, chunk, handed, outcomes>>

\* take_action: select_folders, the two checks on its result, process_folders
ResolveFolders ==
    /\ pc = "select_folders"
    /\ \E out \in {"ok", "error"} :
         /\ calls' = Append(calls, Call("list_folders", 0, <<>>, <<>>, out))
         /\ IF out # "ok"
            THEN Raise("error") /\ UNCHANGED <<selected_folders, fidx>>
            ELSE /\ selected_folders' = select_folders(args.folders, ServerFolders)
                 /\ IF selected_folders' = <<>>
                    THEN Raise("NoMatchingFolders") /\ fidx' = fidx
                    ELSE IF args.fail_if_empty /\ Len(selected_folders') > 1
                    THEN Raise("InvalidOptions") /\ fidx' = fidx
                    ELSE GoFolder(1, selected_folders')
    /\ UNCHANGED <<argv, args, messages, pos, chunk, handed, outcomes>>

\* mutant: the except clause is missing, the protocol error propagates
SelectFolder_Propagates ==
    /\ pc = "select_folder"
    /\ \E out \in {"ok", "imap_error", "error"} :
         /\ calls' = <<Call("select_folder", 0, <<>>, <<selected_folders[fidx]>>, out)>>
         /\ IF out = "ok"
            THEN pc' = "search" /\ result' = result
            ELSE Raise("error")
    /\ messages' = <<>>
    /\ pos' = 1
    /\ chunk' = <<>>
    /\ handed' = <<>>
    /\ UNCHANGED <<argv, args, selected_folders, fidx, outcomes>>

\* process_one_folder: select_folder; an imaplib.IMAP4.error is logged and the
\* method returns, any other exception propagates
SelectFolder ==
    /\ pc = "select_folder"
    /\ \E out \in {"ok", "imap_error", "error"} :
         /\ calls' = <<Call("select_folder", 0, <<>>, <<selected_folders[fidx]>>, out)>>
         /\ CASE out = "ok" ->
                   pc' = "search" /\ result' = result /\ fidx' = fidx
                   /\ outcomes' = outcomes
              [] out = "imap_error" ->
                   GoFolder(fidx + 1, selected_folders)
                   /\ outcomes' = Append(outcomes, "skipped")
              [] out = "error" ->
                   Raise("error") /\ fidx' = fidx /\ outcomes' = outcomes
    /\ messages' = <<>>
    /\ pos' = 1
    /\ chunk' = <<>>
    /\ handed' = <<>>
    /\ UNCHANGED <<argv, args, selected_folders>>

\* mutant: the fail_if_empty check after the search is missing
Search_NoEmptyCheck ==
    /\ pc = "search"
    /\ LET op == IF args.query = None THEN "search" ELSE "gmail_search"
           arg == IF args.query = None THEN <<>> ELSE <<args.query>>
       IN  \/ /\ calls' = Append(calls, Call(op, 0, <<>>, arg, "error"))
              /\ Raise("error")
              /\ messages' = messages
           \/ \E found \in SearchResults :
                /\ calls' = Append(calls, Call(op, 0, found, arg, "ok"))
                /\ messages' = found
                /\ pc' = "chunker" /\ result' = result
    /\ pos' = 1
    /\ UNCHANGED <<argv, args, selected_folders, fidx, chunk, handed, outcomes>>

\* process_one_folder: the search and the fail_if_empty check
Search ==
    /\ pc = "search"
    /\ LET op == IF args.query = None THEN "search" ELSE "gmail_search"
           arg == IF args.query = None THEN <<>> ELSE <<args.query>>
       IN  \/ /\ calls' = Append(calls, Call(op, 0, <<>>, arg, "error"))
              /\ Raise("error")
              /\ messages' = messages
           \/ \E found \in SearchResults :
                /\ calls' = Append(calls, Call(op, 0, found, arg, "ok"))
                /\ messages' = found
                /\ IF args.fail_if_empty /\ found = <<>>
                   THEN Raise("NoMatchingMessages")
                   ELSE pc' = "chunker" /\ result' = result
    /\ pos' = 1
    /\ UNCHANGED <<argv, args, selected_folders, fidx, chunk, handed, outcomes>>

\* mutant: the whole search result is handed over instead of the chunk
NextChunk_HandsAll ==
    /\ pc = "chunker"
    /\ IF pos > Len(messages)
       THEN /\ GoFolder(fidx + 1, selected_folders)
            /\ outcomes' = Append(outcomes, "processed")
            /\ UNCHANGED <<pos, chunk, handed>>
       ELSE /\ chunk' = messages
            /\ pos' = pos + args.chunksize
            /\ handed' = Append(handed, chunk')
            /\ pc' = IF StepAfter(args, 0) = "return" THEN "chunker"
                     ELSE StepAfter(args, 0)
            /\ UNCHANGED <<result, fidx, outcomes>>
    /\ UNCHANGED <<argv, args, selected_folders, messages, calls>>

\* process_one_folder: the for loop over chunker(messages, chunksize), handing
\* the next chunk to process_messages; when the chunks are exhausted the
\* method returns to process_folders
NextChunk ==
    /\ pc = "chunker"
    /\ IF pos > Len(messages)
       THEN /\ GoFolder(fidx + 1, selected_folders)
            /\ outcomes' = Append(outcomes, "processed")
            /\ UNCHANGED <<pos, chunk, handed>>
       ELSE /\ chunk' = ChunkAt(messages, pos, args.chunksize)
            /\ pos' = pos + args.chunksize
            /\ handed' = Append(handed, chunk')
            /\ pc' = IF StepAfter(args, 0) = "return" THEN "chunker"
                     ELSE StepAfter(args, 0)
            /\ UNCHANGED <<result, fidx, outcomes>>
    /\ UNCHANGED <<argv, args, selected_folders, messages, calls>>

\* mutant: a failed call is caught and the next step taken all the same
DoStep_Swallows(step) ==
    /\ \E out \in {"ok", "error"} :
         /\ calls' = Append(calls, StepCall(args, step, Len(handed), chunk, out))
         /\ pc' = IF StepAfter(args, StepIndex(step)) = "return" THEN "chunker"
                  ELSE StepAfter(args, StepIndex(step))
         /\ result' = result
    /\ UNCHANGED <<argv, args, selected_folders, fidx, messages, pos, chunk, handed, outcomes>>

\* mutant: the whole search result is passed instead of the chunk
DoStep_WholeResult(step) ==
    /\ \E out \in {"ok", "error"} :
         /\ calls' = Append(calls, StepCall(args, step, Len(handed), messages, out))
         /\ IF out = "ok"
            THEN /\ pc' = IF StepAfter(args, StepIndex(step)) = "return" THEN "chunker"
                          ELSE StepAfter(args, StepIndex(step))
                 /\ result' = result
            ELSE Raise("error")
    /\ UNCHANGED <<argv, args, selected_folders, fidx, messages, pos, chunk, handed, outcomes>>

\* process_messages: one call on the connection and the way to the next one
DoStep(step) ==
    /\ \E out \in {"ok", "error"} :
         /\ calls' = Append(calls, StepCall(args, step, Len(handed), chunk, out))
         /\ IF out = "ok"
            THEN /\ pc' = IF StepAfter(args, StepIndex(step)) = "return" THEN "chunker"
                          ELSE StepAfter(args, StepIndex(step))
                 /\ result' = result
            ELSE Raise("error")
    /\ UNCHANGED <<argv, args, selected_folders, fidx, messages, pos, chunk, handed, outcomes>>

AddFlags ==
    /\ pc = "add_flags"
    /\ DoStep("add_flags")

RemoveFlags ==
    /\ pc = "remove_flags"
    /\ DoStep("remove_flags")

AddGmailLabels ==
    /\ pc = "add_gmail_labels"
    /\ DoStep("add_gmail_labels")

RemoveGmailLabels ==
    /\ pc = "remove_gmail_labels"
    /\ DoStep("remove_gmail_labels")

Archive ==
    /\ pc = "archive"
    /\ DoStep("archive")

\* the fetch; printing what it returned (show_message) calls nothing on the
\* connection and leaves the run's state as it is
Show ==
    /\ pc = "show"
    /\ DoStep("show")

TrashMessages ==
    /\ pc = "trash"
    /\ DoStep("trash")

DeleteMessages ==
    /\ pc = "delete_messages"
    /\ DoStep("delete_messages")

Expunge ==
    /\ pc = "expunge"
    /\ DoStep("expunge")


Next ==
    \/ ParseArgs
    \/ Connect
    \/ Login
    \/ ResolveFolders
    \/ SelectFolder
    \/ Search
    \/ NextChunk
    \/ AddFlags
    \/ RemoveFlags
    \/ AddGmailLabels
    \/ RemoveGmailLabels
    \/ Archive
    \/ Show
    \/ TrashMessages
    \/ DeleteMessages
    \/ Expunge

Spec == Init /\ [][Next]_vars

----------------------------------------------------------------------------
(* What the properties below speak of.                                     *)

Parsed == pc # "argparse" /\ result # "usage_error"

Last(s) == s[Len(s)]

Elems(s) == {s[i] : i \in 1..Len(s)}

RECURSIVE Concat(_)
Concat(ss) == IF ss = <<>> THEN <<>> ELSE Head(ss) \o Concat(Tail(ss))

\* the place of a call in the order the specification gives for one batch
\* (0: not a call of the batch action dispatcher)
Rank(c) ==
    CASE c.op = "add_flags" -> 1
      [] c.op = "remove_flags" -> 2
      [] c.op = "add_gmail_labels" /\ c.batch > 0 -> IF c.arg = <<Trash>> THEN 7 ELSE 3
      [] c.op = "remove_gmail_labels" /\ c.batch > 0 -> IF c.arg = <<Inbox>> THEN 5 ELSE 4
      [] c.op = "fetch" -> 6
      [] c.op = "delete_messages" -> 8
      [] c.op = "expunge" -> 9
      [] OTHER -> 0

\* the places the command line asks for
RequestedRanks ==
    (IF args.flag # <<>> THEN {1, 2} ELSE {})
    \cup (IF args.label # <<>> THEN {3, 4} ELSE {})
    \cup (IF args.archive THEN {5} ELSE {})
    \cup (IF args.show THEN {6} ELSE {})
    \cup (IF args.trash THEN {7} ELSE {})
    \cup (IF args.delete THEN {8, 9} ELSE {})

\* the calls made for batch b, in the order made
CallsOf(b) == SelectSeq(calls, LAMBDA c : c.batch = b)

Ranks(cs) == [i \in 1..Len(cs) |-> Rank(cs[i])]

Ascending(ns) == \A i, j \in 1..Len(ns) : i < j => ns[i] < ns[j]

\* process_messages has returned normally for batch b of the current folder
BatchDone(b) ==
    \/ b < Len(handed)
    \/ /\ b = Len(handed)
       /\ pc \in {"chunker", "select_folder", "exit"}
       /\ result \in {"running", "ok"}

\* process_one_folder has just returned after working through its chunks
FolderProcessed ==
    /\ pc \in {"select_folder", "exit"}
    /\ result \in {"running", "ok"}
    /\ outcomes # <<>>
    /\ Last(outcomes) = "processed"

----------------------------------------------------------------------------
(* C1: the calls made for a batch come in the fixed order add_flags,       *)
(* remove_flags, add_gmail_labels, remove_gmail_labels (user labels),      *)
(* remove_gmail_labels of Inbox, fetch, add_gmail_labels of Trash,         *)
(* delete_messages, expunge; a batch that is done got exactly the          *)
(* requested ones; the calls of a batch precede those of the next; and a   *)
(* delete_messages that succeeded is followed at once by the expunge of    *)
(* the same batch.                                                         *)
C1_FixedOrder ==
    Parsed =>
      /\ \A b \in 1..Len(handed) :
           LET made == Ranks(CallsOf(b))
           IN  /\ Ascending(made)
               /\ Elems(made) \subseteq RequestedRanks
               /\ BatchDone(b) => Elems(made) = RequestedRanks
      /\ \A i \in 1..Len(calls) :
           /\ i < Len(calls) => calls[i].batch <= calls[i + 1].batch
           /\ calls[i].batch <= Len(handed)
           /\ (calls[i].op = "delete_messages" /\ calls[i].out = "ok") =>
                IF i < Len(calls)
                THEN calls[i + 1].op = "expunge" /\ calls[i + 1].batch = calls[i].batch
                ELSE pc = "expunge"

\* a second batch is done with every kind of action requested
C1_Witness ==
    /\ Parsed
    /\ RequestedRanks = 1..9
    /\ Len(handed) = 2
    /\ BatchDone(2)
    /\ Ranks(CallsOf(2)) = <<1, 2, 3, 4, 5, 6, 7, 8, 9>>

(* C2: the batches handed to process_messages, concatenated in call order, *)
(* are the search result read so far, and all of it once the folder is     *)
(* done; no batch is longer than the chunk size and all but the last have  *)
(* exactly that size.                                                      *)
C2_Chunking ==
    Parsed =>
      /\ Concat(handed) = SubSeq(messages, 1, Len(Concat(handed)))
      /\ \A b \in 1..Len(handed) :
           /\ Len(handed[b]) <= args.chunksize
           /\ b < Len(handed) => Len(handed[b]) = args.chunksize
      /\ FolderProcessed => Concat(handed) = messages

\* three messages, not in ascending order, went out as a batch of two and a
\* batch of one
C2_Witness ==
    /\ FolderProcessed
    /\ messages = <<3, 1, 2>>
    /\ handed = << <<3, 1>>, <<2>> >>

Ops(cs) == [i \in 1..Len(cs) |-> cs[i].op]

SearchOps == {"search", "gmail_search"}

(* C3 as stated: when the run fails with InvalidOptions nothing has been   *)
(* called on the connection, not even the connect.                         *)
C3_Original ==
    result = "InvalidOptions" => calls = <<>>

(* C3, amended: with --fail-if-empty and two or more folders resolved the  *)
(* run fails with InvalidOptions, and it does so after the connect, the    *)
(* login and the folder listing have succeeded and before any              *)
(* select_folder, search, fetch or mutation call; InvalidOptions has no    *)
(* other cause.                                                            *)
C3_InvalidOptions ==
    Parsed =>
      /\ (args.fail_if_empty /\ Len(selected_folders) > 1) =>
           (result = "InvalidOptions" /\ pc = "exit")
      /\ result = "InvalidOptions" =>
           /\ args.fail_if_empty /\ Len(selected_folders) > 1
           /\ Ops(calls) = <<"IMAPClient", "login", "list_folders">>
           /\ \A i \in 1..Len(calls) : calls[i].out = "ok"
           /\ outcomes = <<>>
           /\ ~ENABLED Next

\* InvalidOptions for the default folder argument, which the listing resolves
C3_Witness ==
    /\ result = "InvalidOptions"
    /\ argv.folders = <<"@all">>
    /\ selected_folders = <<"INBOX", "Spam">>

(* C4: with --fail-if-empty, a search (or select-all) that returns nothing *)
(* ends the run with NoMatchingMessages: it is the last call of the run,   *)
(* the folder is the first and only one, and no fetch and no mutation call *)
(* was made.                                                               *)
C4_NoMatchingMessages ==
    (Parsed /\ args.fail_if_empty) =>
      /\ \A i \in 1..Len(calls) :
           (calls[i].op \in SearchOps /\ calls[i].out = "ok" /\ calls[i].ids = <<>>) =>
             /\ result = "NoMatchingMessages"
             /\ pc = "exit"
             /\ i = Len(calls)
             /\ fidx = 1
             /\ outcomes = <<>>
             /\ \A j \in 1..Len(calls) : Rank(calls[j]) = 0
             /\ ~ENABLED Next
      /\ result = "NoMatchingMessages" =>
           (Last(calls).op \in SearchOps /\ Last(calls).ids = <<>>)

\* the query matched nothing while flags and a delete were asked for
C4_Witness ==
    /\ result = "NoMatchingMessages"
    /\ args.delete
    /\ args.flag # <<>>
    /\ Last(calls).op = "gmail_search"

(* C5: when select_folder fails with a protocol error nothing else is      *)
(* called for that folder, the run does not end in an error and goes on to *)
(* the next resolved folder (or ends normally after the last); a run that  *)
(* ends normally has been through every resolved folder.                   *)
C5_SelectFailureSkips ==
    Parsed =>
      /\ (calls # <<>> /\ Last(calls).op = "select_folder"
            /\ Last(calls).out = "imap_error") =>
           /\ Len(calls) = 1
           /\ outcomes # <<>> /\ Last(outcomes) = "skipped"
           /\ fidx = Len(outcomes) + 1
           /\ Last(calls).arg = <<selected_folders[fidx - 1]>>
           /\ IF fidx <= Len(selected_folders)
              THEN pc = "select_folder" /\ result = "running"
              ELSE pc = "exit" /\ result = "ok"
      /\ result = "ok" => Len(outcomes) = Len(selected_folders)
      /\ \A i \in 1..Len(outcomes) : outcomes[i] \in {"skipped", "processed"}

\* the first folder could not be selected, the second was worked through
C5_Witness ==
    /\ result = "ok"
    /\ outcomes = <<"skipped", "processed">>
    /\ \E i \in 1..Len(calls) : calls[i].op = "delete_messages"

(* C6: a search, fetch or mutation call that fails is the last call of the *)
(* run: the run ends with the error and nothing is called after it.        *)
C6_FailureAborts ==
    \A i \in 1..Len(calls) :
      ((calls[i].op \in SearchOps \/ Rank(calls[i]) > 0) /\ calls[i].out # "ok") =>
        /\ i = Len(calls)
        /\ pc = "exit"
        /\ result = "error"
        /\ ~ENABLED Next

\* delete_messages fails on the first batch of the first of two folders,
\* with messages of the folder still to come
C6_Witness ==
    /\ result = "error"
    /\ Last(calls).op = "delete_messages"
    /\ Len(selected_folders) = 2
    /\ fidx = 1
    /\ pos <= Len(messages)

\* the flag name a -F token stands for: upper-cased, one leading sign dropped
NameOf(t) ==
    IF t # <<>> /\ Upper(t)[1] \in {"+", "-"} THEN Tail(Upper(t)) ELSE Upper(t)

SignOf(t) == IF t # <<>> /\ t[1] = "-" THEN "-" ELSE "+"

FlagSet == Elems(valid_flags)

(* C7 as stated: every -F token that, compared case-insensitively, is not  *)
(* one of the six flag names is refused.                                   *)
C7_Original ==
    (pc # "argparse" /\ \E i \in 1..Len(argv.flag) : Upper(argv.flag[i]) \notin FlagSet)
      => result = "usage_error"

(* C7, amended: a -F token is refused exactly when what is left of it      *)
(* after upper-casing and dropping one leading '+' or '-' is not one of    *)
(* the six flag names; the refusal comes from argument parsing, which ends *)
(* the run before anything is called on the network; a token that is       *)
(* accepted yields its sign and the flag's constant.                       *)
C7_InvalidFlag ==
    pc # "argparse" =>
      IF \E i \in 1..Len(argv.flag) : NameOf(argv.flag[i]) \notin FlagSet
      THEN /\ result = "usage_error"
           /\ pc = "exit"
           /\ calls = <<>>
           /\ args = Unparsed
           /\ ~ENABLED Next
      ELSE /\ result # "usage_error"
           /\ Len(args.flag) = Len(argv.flag)
           /\ \A i \in 1..Len(argv.flag) :
                /\ args.flag[i][1] = SignOf(argv.flag[i])
                /\ \E k \in 1..Len(valid_flags) :
                     /\ valid_flags[k] = NameOf(argv.flag[i])
                     /\ args.flag[i][2] = imapclient_flags[k]

\* a flag name with two signs in front is refused
C7_Witness ==
    /\ result = "usage_error"
    /\ argv.flag = << <<"-", "+", "s", "e", "e", "n">> >>
    /\ calls = <<>>

(* C8: labelspec of "+"t is (add, t), of "-"t is (remove, t), and of a     *)
(* token without a leading sign is (add, token): exactly one leading sign  *)
(* is dropped, whatever follows it; no -L token is refused.                *)
C8_LabelSpec ==
    /\ (pc # "argparse" /\ argv.flag = <<>>) => Parsed
    /\ Parsed =>
         /\ Len(args.label) = Len(argv.label)
         /\ \A i \in 1..Len(argv.label) :
              LET raw == argv.label[i]
                  got == args.label[i]
              IN  /\ (raw # <<>> /\ raw[1] = "+") => got = <<"+", Tail(raw)>>
                  /\ (raw # <<>> /\ raw[1] = "-") => got = <<"-", Tail(raw)>>
                  /\ (raw = <<>> \/ raw[1] \notin {"+", "-"}) => got = <<"+", raw>>

\* a token that goes on with a sign after its first sign, and the empty token
C8_Witness ==
    /\ Parsed
    /\ argv.label = << <<"-", "+", "a">> >>
    /\ args.label = << <<"-", <<"+", "a">> >> >>
    /\ <<>> \in LabelTokens

RECURSIVE WithSign(_, _)
WithSign(specs, sign) ==
    IF specs = <<>> THEN <<>>
    ELSE (IF Head(specs)[1] = sign THEN <<Head(specs)[2]>> ELSE <<>>)
         \o WithSign(Tail(specs), sign)

Seen == "\\Seen"

(* C9: with a flag spec given, a batch that is done got one add_flags call *)
(* with the flags of sign add and then one remove_flags call with the      *)
(* flags of sign remove, whether or not the list is empty; with none       *)
(* given, neither call is ever made. With the one flag spec +SEEN every    *)
(* add_flags call carries Seen and every remove_flags call carries         *)
(* nothing.                                                                *)
C9_Flags ==
    Parsed =>
      /\ \A b \in 1..Len(handed) :
           BatchDone(b) =>
             LET cs == SelectSeq(CallsOf(b),
                                 LAMBDA c : c.op \in {"add_flags", "remove_flags"})
             IN  IF args.flag = <<>> THEN cs = <<>>
                 ELSE /\ Ops(cs) = <<"add_flags", "remove_flags">>
                      /\ cs[1].ids = handed[b] /\ cs[1].arg = WithSign(args.flag, "+")
                      /\ cs[2].ids = handed[b] /\ cs[2].arg = WithSign(args.flag, "-")
      /\ \A i \in 1..Len(calls) :
           /\ calls[i].op \in {"add_flags", "remove_flags"} => args.flag # <<>>
           /\ argv.flag = << <<"+", "S", "E", "E", "N">> >> =>
                /\ calls[i].op = "add_flags" => calls[i].arg = <<Seen>>
                /\ calls[i].op = "remove_flags" => calls[i].arg = <<>>

\* +SEEN alone: the second batch got Seen added and an empty remove_flags
C9_Witness ==
    /\ Parsed
    /\ argv.flag = << <<"+", "S", "E", "E", "N">> >>
    /\ Len(handed) = 2
    /\ BatchDone(2)
    /\ \E i \in 1..Len(calls) :
         calls[i].op = "remove_flags" /\ calls[i].batch = 2 /\ calls[i].arg = <<>>

Count(s, m) == Cardinality({i \in 1..Len(s) : s[i] = m})

\* the identifiers passed by the calls at place r of the order, one after the other
IdsAt(r) ==
    LET cs == SelectSeq(calls, LAMBDA c : Rank(c) = r)
    IN  Concat([i \in 1..Len(cs) |-> cs[i].ids])

(* C10: no batch handed to process_messages is empty; every fetch and      *)
(* mutation call passes identifiers of the search result of the folder     *)
(* selected last; and when a folder has been worked through, each          *)
(* requested action has been applied to each identifier of the search      *)
(* result exactly once (expunge: once per batch).                          *)
C10_ExactlyOnce ==
    Parsed =>
      /\ \A b \in 1..Len(handed) : handed[b] # <<>>
      /\ \A i \in 1..Len(calls) :
           Rank(calls[i]) > 0 =>
             /\ Elems(calls[i].ids) \subseteq Elems(messages)
             /\ calls[1].op = "select_folder" /\ calls[1].out = "ok"
             /\ calls[1].arg = <<selected_folders[IF FolderProcessed THEN Len(outcomes)
                                                   ELSE Len(outcomes) + 1]>>
             /\ calls[2].op \in SearchOps /\ calls[2].ids = messages
      /\ FolderProcessed =>
           /\ \A r \in RequestedRanks \ {9} :
                \A m \in 1..MaxMsgs :
                  Count(IdsAt(r), m) = IF m \in Elems(messages) THEN 1 ELSE 0
           /\ \A r \in (1..9) \ RequestedRanks :
                \A i \in 1..Len(calls) : Rank(calls[i]) # r
           /\ 9 \in RequestedRanks =>
                Len(SelectSeq(calls, LAMBDA c : Rank(c) = 9)) = Len(handed)

\* three messages went out one by one with every kind of action requested
C10_Witness ==
    /\ FolderProcessed
    /\ result = "ok"
    /\ RequestedRanks = 1..9
    /\ Len(messages) = 3
    /\ Len(handed) = 3

====
